---- MODULE Spec2Model ----
(***************************************************************************)
(* A model of dct-rs: the PGM raster (src/src/pgm_parse.rs), its block     *)
(* extraction, the forward DCT and quantization pipeline (src/src/dct.rs)  *)
(* and the command surface (src/src/main.rs).                               *)
(*                                                                         *)
(* Rust vectors are modelled as 1-based sequences: the element the code    *)
(* calls v[p] is v[p + 1] here.  Offsets, block indices and ret_idx keep   *)
(* the code's 0-based values.  A Rust panic (index out of bounds, division *)
(* by zero, failed debug assertion) is the result kind "Panic".            *)
(***************************************************************************)
EXTENDS Integers, Sequences, FiniteSets, TLC

VARIABLES img,      \* the PGMImage the operations act on (kind "None" before a parse)
          call,     \* the library call last made on img and its arguments
          result,   \* what that call returned
          dct_pc,   \* position of dct(): "idle", "start", "loop", "ok", "err", "panic"
          block_index, \* dct()'s loop variable
          ret,      \* dct()'s accumulator: Vec<Vec<i16>>
          dct_out,  \* the Vec<f64> dct_block last returned
          build,    \* "debug" or "release": whether debug_assert! is compiled in
          cmd,      \* the parsed command line of main()
          file,     \* the file main()'s path names
          main_pc,  \* "idle", "start", "done"
          exit,     \* main()'s return: "None", "Ok", "Err"
          stdout,   \* the lines main() printed
          coeffs    \* the transform output main() produced (kind "None" when none)

vars == <<img, call, result, dct_pc, block_index, ret, dct_out, build,
          cmd, file, main_pc, exit, stdout, coeffs>>

----------------------------------------------------------------------------
(* Bounds of the model.                                                    *)

\* Raster widths and heights are 4 * (1 .. MaxDimUnits) in the
\* block-extraction specification: multiples of 8 and dimensions the block
\* size does not divide both occur.
MaxDimUnits == 6
\* Block indices passed to get_block range over 0 .. MaxBlockIndex.
MaxBlockIndex == 10
\* Raster widths and heights are 4 * (1 .. MaxDctDimUnits) in the pipeline
\* and engine specifications.
MaxDctDimUnits == 4

\* consts::BLOCK_SIZE_8X8
BLOCK_SIZE_8X8 == 8

----------------------------------------------------------------------------
(* PGMImage                                                                *)

\* The sample patterns rasters are filled with: sample p = (mul*p + off) % 256.
Patterns == { [mul |-> 1, off |-> 0], [mul |-> 7, off |-> 3] }

Sample(pat, p) == (pat.mul * p + pat.off) % 256

\* struct PGMImage, with image_u8.len() == width * height as parse() builds it.
PGMImage(w, h, pat) ==
    [kind |-> "Image", width |-> w, height |-> h, maxval |-> 255,
     image_u8 |-> [p \in 1 .. w * h |-> Sample(pat, p - 1)]]

NoImage == [kind |-> "None", width |-> 0, height |-> 0, maxval |-> 0, image_u8 |-> <<>>]

\* PGMImage::num_blocks
num_blocks(im, block_size) ==
    (im.width * im.height) \div (block_size * block_size)

\* PGMImage::translate_index.  width / block_size or height / block_size of 0
\* makes the % or / panic (division by zero).
translate_index(im, block_size, bi) ==
    IF im.width \div block_size = 0 \/ im.height \div block_size = 0
    THEN [kind |-> "Panic", value |-> 0]
    ELSE LET col_idx == bi % (im.width \div block_size)
             row_idx == bi \div (im.height \div block_size)
             row_addend == IF row_idx >= 1 THEN (row_idx + 1) * im.width ELSE 0
             col_addend == col_idx * block_size
         IN  [kind |-> "Ok", value |-> row_addend + col_addend]

\* next_ret_idx with the wrap-around losing its + 1.
next_ret_idx_nowrap1(ret_idx, block_size, num_pixels) ==
    (ret_idx + block_size) % num_pixels

\* The advance of ret_idx at the end of one inner iteration of get_block.
next_ret_idx(ret_idx, block_size, num_pixels) ==
    IF ret_idx + block_size >= num_pixels
    THEN ((ret_idx + block_size) % num_pixels) + 1
    ELSE ret_idx + block_size

\* The two nested loops of get_block, flattened: iteration k has
\* i = start_index + k / 8 and j = k % 8 (both loops run 8 times whatever
\* block_size is).  st holds ret, ret_idx, and the raster offsets read and
\* the ret positions written so far, in loop order.
RECURSIVE get_block_loop(_, _, _, _, _)
get_block_loop(im, block_size, start_index, k, st) ==
    IF k = 64 THEN [st EXCEPT !.kind = "Ok"]
    ELSE LET i == start_index + (k \div 8)
             j == k % 8
             off == i + im.width * j
             num_pixels == block_size * block_size
         IN  IF off >= Len(im.image_u8) \/ st.ret_idx >= num_pixels
             THEN [st EXCEPT !.kind = "Panic"]
             ELSE get_block_loop(im, block_size, start_index, k + 1,
                    [kind |-> "Run",
                     block |-> [st.block EXCEPT ![st.ret_idx + 1] = im.image_u8[off + 1]],
                     ret_idx |-> next_ret_idx(st.ret_idx, block_size, num_pixels),
                     reads |-> Append(st.reads, off),
                     writes |-> Append(st.writes, st.ret_idx)])

\* The bounds check with > for >=.
index_out_of_bounds_gt(bi, nb) == bi > nb

\* The bounds check of get_block: `if block_index >= num_blocks`.
index_out_of_bounds(bi, nb) == bi >= nb

\* PGMImage::get_block
get_block(im, block_size, bi) ==
    LET num_pixels == block_size * block_size
        nb == (im.width * im.height) \div (block_size * block_size)
        none == [kind |-> "Err", block |-> <<>>, ret_idx |-> 0,
                 reads |-> <<>>, writes |-> <<>>]
    IN  IF index_out_of_bounds(bi, nb) THEN none
        ELSE LET t == translate_index(im, block_size, bi)
             IN  IF t.kind = "Panic" THEN [none EXCEPT !.kind = "Panic"]
                 ELSE get_block_loop(im, block_size, t.value, 0,
                        [kind |-> "Run",
                         block |-> [p \in 1 .. num_pixels |-> 0],
                         ret_idx |-> 0, reads |-> <<>>, writes |-> <<>>])

----------------------------------------------------------------------------
(* dct.rs.  f64 values are modelled in fixed point: a coefficient or a     *)
(* level-shifted sample x is the integer nearest to x * 256 the evaluation *)
(* below yields, cosines and alpha are rounded to 1/256, and sums are       *)
(* exact integers.  Every intermediate value fits 32 bits.                  *)

\* const QUANTIZATION_TABLE: [u8; 64]
QUANTIZATION_TABLE ==
    << 16, 11, 10, 16, 24, 40, 51, 61, 12, 12, 14, 19, 26, 58, 60, 55,
       14, 13, 16, 24, 40, 57, 69, 56, 14, 17, 22, 29, 51, 87, 80, 62,
       18, 22, 37, 56, 68, 109, 103, 77, 24, 35, 55, 64, 81, 104, 113, 92,
       49, 64, 78, 87, 103, 121, 120, 101, 72, 92, 95, 98, 112, 100, 103, 99 >>

\* round(256 * cos(m * PI / 16)) for m = 0 .. 31; the cosine has period 32 in m.
CosTable ==
    << 256, 251, 237, 213, 181, 142, 98, 50, 0, -50, -98, -142, -181, -213,
       -237, -251, -256, -251, -237, -213, -181, -142, -98, -50, 0, 50, 98,
       142, 181, 213, 237, 251 >>

\* (((2 * x + 1) as f64) * (i as f64) * PI / 16.0).cos(), times 256
cos_term(x, i) == CosTable[(((2 * x + 1) * i) % 32) + 1]

\* fn alpha, times 256: 1/sqrt(2) for 0, else 1
alpha(i) == IF i = 0 THEN 181 ELSE 256

\* 0.25 * alpha(i) * alpha(j), times 1024
preamble(i, j) == ((alpha(i) * alpha(j)) \div 4) \div 64

\* fn level_shift_block: each element minus 128.0 (kept as an integer, the
\* difference of two integers being exact in f64).
level_shift_block(block) == [p \in 1 .. Len(block) |-> block[p] - 128]

\* The two inner loops of dct_block for one (i, j), flattened over
\* n = x * height + y: the sum of shifted[8*x + y] * cos_x * cos_y, times
\* 65536.
RECURSIVE dct_sum(_, _, _, _, _, _, _)
dct_sum(shifted, width, height, i, j, n, acc) ==
    IF n = width * height THEN acc
    ELSE LET x == n \div height
             y == n % height
         IN  dct_sum(shifted, width, height, i, j, n + 1,
                     acc + shifted[BLOCK_SIZE_8X8 * x + y + 1]
                             * cos_term(x, i) * cos_term(y, j))

\* dct[8*i + j] = preamble * sum, times 256
dct_coefficient(shifted, width, height, i, j) ==
    ((dct_sum(shifted, width, height, i, j, 0, 0) \div 256) * preamble(i, j)) \div 1024

\* pub fn dct_block(width, height, block) -> Vec<f64>.  With debug assertions
\* compiled in, a width or height other than 8 panics; without them the loops
\* run to width and height, and panic when an index 8*x + y or 8*i + j they
\* reach lies outside the vectors, which have the length of the block.  The
\* entries of the result the loops do not reach stay 0.0.
dct_block(bld, width, height, block) ==
    LET shifted == level_shift_block(block)
        reached == { BLOCK_SIZE_8X8 * i + j : i \in 0 .. width - 1,
                                               j \in 0 .. height - 1 }
    IN  IF bld = "debug" /\ ~(width = BLOCK_SIZE_8X8 /\ height = BLOCK_SIZE_8X8)
        THEN [kind |-> "Panic", dct |-> <<>>]
        ELSE IF \E p \in reached : p >= Len(shifted)
        THEN [kind |-> "Panic", dct |-> <<>>]
        ELSE [kind |-> "Value",
              dct |-> [p \in 1 .. Len(shifted) |->
                         IF (p - 1) \in reached
                         THEN dct_coefficient(shifted, width, height,
                                (p - 1) \div BLOCK_SIZE_8X8, (p - 1) % BLOCK_SIZE_8X8)
                         ELSE 0]]

\* The quotient rounded toward zero (f64::trunc) in the place of the floor.
floor_toward_zero(num, divisor) ==
    IF num >= 0 THEN num \div divisor ELSE -((-num) \div divisor)

\* f64::floor of num / divisor, num and divisor in the same fixed-point
\* unit: the quotient rounded toward negative infinity.
floor(num, divisor) == num \div divisor

\* `as i16`: a saturating cast
as_i16(v) == IF v > 32767 THEN 32767 ELSE IF v < -32768 THEN -32768 ELSE v

\* The closure of dct(): (*num / (QUANTIZATION_TABLE[idx] as f64)).floor() as i16,
\* idx 0-based, num in units of 1/256.
quantize(idx, num) == as_i16(floor(num, 256 * QUANTIZATION_TABLE[idx + 1]))

\* .iter().enumerate().map(...).collect::<Vec<i16>>()
quantize_block(coefs) ==
    [p \in 1 .. Len(coefs) |-> quantize(p - 1, coefs[p])]

----------------------------------------------------------------------------
(* The block-extraction specification: any raster, any call of get_block   *)
(* on it.                                                                  *)

Dims == { 4 * u : u \in 1 .. MaxDimUnits }
BlockSizes == { 4, BLOCK_SIZE_8X8, 16 }

NoCall == [op |-> "none", block_size |-> 0, block_index |-> 0, width |-> 0, height |-> 0]
NoResult == [kind |-> "None", block |-> <<>>, ret_idx |-> 0,
             reads |-> <<>>, writes |-> <<>>]
NoCoefficients == [kind |-> "None", dct |-> <<>>]
NoCommand == [name |-> "none", path |-> "", quality |-> 0]
NoFile == [exists |-> FALSE, magic |-> "", dims |-> <<>>, maxval |-> 0,
           pattern |-> [mul |-> 0, off |-> 0], nbytes |-> 0]

DctIdle == dct_pc = "idle" /\ block_index = 0 /\ ret = <<>>
MainIdle == /\ cmd = NoCommand /\ file = NoFile
            /\ main_pc = "idle" /\ exit = "None" /\ stdout = <<>>
            /\ coeffs = [kind |-> "None"]

Init == /\ img \in { PGMImage(w, h, pat) : w \in Dims, h \in Dims, pat \in Patterns }
        /\ call = NoCall
        /\ result = NoResult
        /\ dct_out = NoCoefficients
        /\ build = "release"
        /\ DctIdle
        /\ MainIdle

\* A caller invokes img.get_block(bs, bi).
GetBlockCall(sizes, indices) == \E bs \in sizes, bi \in indices :
    /\ call' = [op |-> "get_block", block_size |-> bs, block_index |-> bi,
                width |-> 0, height |-> 0]
    /\ result' = get_block(img, bs, bi)
    /\ UNCHANGED <<img, dct_pc, block_index, ret, dct_out, build,
                   cmd, file, main_pc, exit, stdout, coeffs>>

GetBlock == GetBlockCall(BlockSizes, 0 .. MaxBlockIndex)

Next == GetBlock

Spec == Init /\ [][Next]_vars

----------------------------------------------------------------------------
(* The pipeline specification: dct(img) on any raster, one loop iteration  *)
(* per step.                                                               *)

DctDims == { 4 * u : u \in 1 .. MaxDctDimUnits }
DctPatterns == Patterns \cup { [mul |-> 0, off |-> 128] }
DctRasters == { PGMImage(w, h, pat) : w \in DctDims, h \in DctDims, pat \in DctPatterns }

InitDct == /\ img \in DctRasters
           /\ call = NoCall
           /\ result = NoResult
           /\ dct_out = NoCoefficients
           /\ build \in {"debug", "release"}
           /\ dct_pc = "start" /\ block_index = 0 /\ ret = <<>>
           /\ MainIdle

\* An insertion at the front in the place of the push.
push_front(v, x) == <<x>> \o v

\* ret.push(quantized_dct)
push(v, x) == Append(v, x)

\* dct(): `let num_blocks = ...; let mut ret = vec![];` and the entry of the loop
DctEnter ==
    /\ dct_pc = "start"
    /\ dct_pc' = "loop"
    /\ block_index' = 0
    /\ ret' = <<>>
    /\ UNCHANGED <<img, call, result, dct_out, build,
                   cmd, file, main_pc, exit, stdout, coeffs>>

\* dct(): one iteration of `for block_index in 0..num_blocks`: get_block, `?`,
\* dct_block, the quantizing map, push.
DctIterate ==
    /\ dct_pc = "loop"
    /\ block_index < num_blocks(img, BLOCK_SIZE_8X8)
    /\ LET g == get_block(img, BLOCK_SIZE_8X8, block_index)
           d == IF g.kind = "Ok"
                THEN dct_block(build, BLOCK_SIZE_8X8, BLOCK_SIZE_8X8, g.block)
                ELSE NoCoefficients
       IN  /\ call' = [op |-> "get_block", block_size |-> BLOCK_SIZE_8X8,
                       block_index |-> block_index, width |-> 0, height |-> 0]
           /\ result' = g
           /\ dct_out' = d
           /\ IF g.kind = "Err"
              THEN dct_pc' = "err" /\ UNCHANGED <<ret, block_index>>
              ELSE IF g.kind = "Panic" \/ d.kind = "Panic"
              THEN dct_pc' = "panic" /\ UNCHANGED <<ret, block_index>>
              ELSE /\ ret' = push(ret, quantize_block(d.dct))
                   /\ block_index' = block_index + 1
                   /\ dct_pc' = "loop"
    /\ UNCHANGED <<img, build, cmd, file, main_pc, exit, stdout, coeffs>>

\* dct(): the loop is exhausted, `Ok(ret)`
DctReturn ==
    /\ dct_pc = "loop"
    /\ block_index >= num_blocks(img, BLOCK_SIZE_8X8)
    /\ dct_pc' = "ok"
    /\ UNCHANGED <<img, call, result, block_index, ret, dct_out, build,
                   cmd, file, main_pc, exit, stdout, coeffs>>

NextDct == DctEnter \/ DctIterate \/ DctReturn

SpecDct == InitDct /\ [][NextDct]_vars

----------------------------------------------------------------------------
(* The engine specification: get_block with any block size and dct_block   *)
(* with any width and height, called directly.                             *)

InitEngine == /\ img \in DctRasters
              /\ call = NoCall
              /\ result = NoResult
              /\ dct_out = NoCoefficients
              /\ build \in {"debug", "release"}
              /\ DctIdle
              /\ MainIdle

GetFirstBlocks == GetBlockCall(BlockSizes, 0 .. 1)

\* A caller invokes dct_block(w, h, &block) on the block get_block returned.
DctBlockCall == \E w \in {4, BLOCK_SIZE_8X8}, h \in {4, BLOCK_SIZE_8X8} :
    /\ result.kind = "Ok"
    /\ call' = [op |-> "dct_block", block_size |-> 0, block_index |-> 0,
                width |-> w, height |-> h]
    /\ dct_out' = dct_block(build, w, h, result.block)
    /\ UNCHANGED <<img, result, dct_pc, block_index, ret, build,
                   cmd, file, main_pc, exit, stdout, coeffs>>

NextEngine == GetFirstBlocks \/ DctBlockCall

SpecEngine == InitEngine /\ [][NextEngine]_vars

----------------------------------------------------------------------------
(* main.rs and PGMImage::parse.  A file is its header tokens and the       *)
(* number of raster bytes that follow; a token is the integer it spells,   *)
(* negative when it does not parse as an unsigned number.                   *)

\* PGMImage::parse: the first failing step returns the error.
parse(f) ==
    LET err == [kind |-> "Err", img |-> NoImage]
    IN  IF ~f.exists THEN err                             \* File::open
        ELSE IF f.magic # "P5" THEN err                   \* magic number
        ELSE IF Len(f.dims) # 2 THEN err                  \* two dimensions
        ELSE IF f.dims[1] < 0 THEN err                    \* width: usize
        ELSE IF f.dims[2] < 0 THEN err                    \* height: usize
        ELSE IF f.maxval < 0 \/ f.maxval > 65535 THEN err \* maxval: u16
        ELSE IF f.nbytes < f.dims[1] * f.dims[2] THEN err \* read_exact
        ELSE [kind |-> "Ok",
              img |-> [kind |-> "Image", width |-> f.dims[1], height |-> f.dims[2],
                       maxval |-> f.maxval,
                       image_u8 |-> [p \in 1 .. f.dims[1] * f.dims[2] |->
                                       Sample(f.pattern, p - 1)]]]

Files == { [exists |-> e, magic |-> m, dims |-> d, maxval |-> mv,
            pattern |-> pat, nbytes |-> n] :
           e \in BOOLEAN, m \in {"P5", "P2"},
           d \in { <<8, 8>>, <<16, 8>>, <<12, 8>>, <<8>>, <<8, -1>> },
           mv \in {255, 70000}, pat \in Patterns, n \in {64, 96, 128} }

Commands == { [name |-> "compress", path |-> "in.pgm", quality |-> q] : q \in {0, 50, 100} }
              \cup { [name |-> "decompress", path |-> "in.pgm", quality |-> 0] }

InitMain == /\ img = NoImage
            /\ call = NoCall
            /\ result = NoResult
            /\ dct_out = NoCoefficients
            /\ build \in {"debug", "release"}
            /\ DctIdle
            /\ cmd \in Commands
            /\ file \in Files
            /\ main_pc = "start" /\ exit = "None" /\ stdout = <<>>
            /\ coeffs = [kind |-> "None"]

\* main(): the Commands::Compress arm
Compress ==
    /\ main_pc = "start"
    /\ cmd.name = "compress"
    /\ LET r == parse(file)
       IN  IF r.kind = "Ok"
           THEN /\ img' = r.img
                /\ stdout' = <<"compressing image", "parsed image">>
                /\ exit' = "Ok"
           ELSE /\ img' = img
                /\ stdout' = <<"compressing image">>
                /\ exit' = "Err"
    /\ main_pc' = "done"
    /\ UNCHANGED <<call, result, dct_pc, block_index, ret, dct_out, build,
                   cmd, file, coeffs>>

\* main(): the Commands::Decompress arm
Decompress ==
    /\ main_pc = "start"
    /\ cmd.name = "decompress"
    /\ stdout' = <<"decompressing image">>
    /\ exit' = "Ok"
    /\ main_pc' = "done"
    /\ UNCHANGED <<img, call, result, dct_pc, block_index, ret, dct_out, build,
                   cmd, file, coeffs>>

NextMain == Compress \/ Decompress

SpecMain == InitMain /\ [][NextMain]_vars

----------------------------------------------------------------------------
(* Claims about block extraction, checked under Spec.                      *)

\* Width and height are positive multiples of the 8x8 block size.
ValidRaster == /\ img.width > 0 /\ img.height > 0
               /\ img.width % BLOCK_SIZE_8X8 = 0
               /\ img.height % BLOCK_SIZE_8X8 = 0

\* The last call was get_block(8, b) with b inside [0, num_blocks(8)).
InRangeCall8 == /\ call.op = "get_block"
                /\ call.block_size = BLOCK_SIZE_8X8
                /\ call.block_index < num_blocks(img, BLOCK_SIZE_8X8)

\* The raster offset at which the block of index b starts in a row-major
\* grid of width / 8 blocks per row.
TopLeft(b) ==
    LET blocks_per_row == img.width \div BLOCK_SIZE_8X8
    IN  (b \div blocks_per_row) * BLOCK_SIZE_8X8 * img.width
          + (b % blocks_per_row) * BLOCK_SIZE_8X8

\* The raster offsets of rows 8*block_row .. 8*block_row + 7 and columns
\* 8*block_col .. 8*block_col + 7.
Footprint(b) ==
    { TopLeft(b) + r * img.width + c : r \in 0 .. 7, c \in 0 .. 7 }

Range(s) == { s[k] : k \in 1 .. Len(s) }

\* C1: on a raster whose sides are positive multiples of 8, the block
\* get_block(8, b) returns for b < num_blocks(8) starts at raster offset
\* block_row * 8 * width + block_col * 8 and covers exactly the 8 rows and 8
\* columns from there.
C1_BlockStartsAtGridOffset ==
    (ValidRaster /\ InRangeCall8 /\ result.kind = "Ok") =>
        /\ result.reads[1] = TopLeft(call.block_index)
        /\ Range(result.reads) = Footprint(call.block_index)

\* The raster obtained by writing every block get_block(8, b) returns back at
\* the place of block b in row-major block order; position p holds -1 when
\* no block supplies it.
Reassembled ==
    LET blocks_per_row == img.width \div BLOCK_SIZE_8X8
    IN  [p \in 1 .. img.width * img.height |->
           LET row == (p - 1) \div img.width
               col == (p - 1) % img.width
               b == (row \div BLOCK_SIZE_8X8) * blocks_per_row + (col \div BLOCK_SIZE_8X8)
               g == get_block(img, BLOCK_SIZE_8X8, b)
           IN  IF g.kind = "Ok"
               THEN g.block[BLOCK_SIZE_8X8 * (row % BLOCK_SIZE_8X8)
                              + (col % BLOCK_SIZE_8X8) + 1]
               ELSE -1]

\* C2: on a raster whose sides are positive multiples of 8, writing the
\* blocks of all block indices back in row-major block order reconstructs
\* the raster, and the footprints read for distinct block indices are
\* disjoint and together cover the raster.
C2_ExtractionRoundTrip ==
    (ValidRaster /\ call.op = "get_block") =>
        /\ Reassembled = img.image_u8
        /\ \A b1, b2 \in 0 .. num_blocks(img, BLOCK_SIZE_8X8) - 1 :
              b1 # b2 => Range(get_block(img, BLOCK_SIZE_8X8, b1).reads)
                           \cap Range(get_block(img, BLOCK_SIZE_8X8, b2).reads) = {}

\* C3: on a raster with samples.len() = width * height whose sides are
\* positive multiples of 8 (square or not), get_block(8, b) with
\* b < num_blocks(8) returns a block of 64 samples and reads no position
\* outside [0, width * height).
C3_ExtractionTotal ==
    (ValidRaster /\ InRangeCall8) =>
        /\ result.kind = "Ok"
        /\ Len(result.block) = 64
        /\ \A k \in 1 .. Len(result.reads) :
              result.reads[k] >= 0 /\ result.reads[k] < img.width * img.height

\* C4: get_block with block_index >= num_blocks(block_size) returns the
\* out-of-range error, has read no raster sample and returns no block.
C4_IndexOutOfRangeIsError ==
    (call.op = "get_block"
       /\ call.block_index >= num_blocks(img, call.block_size)) =>
        /\ result.kind = "Err"
        /\ result.reads = <<>>
        /\ result.block = <<>>

\* Index 4 was requested on a 16x16 raster with block size 8 and refused.
C4_Witness ==
    /\ img.width = 16 /\ img.height = 16
    /\ call.op = "get_block" /\ call.block_size = BLOCK_SIZE_8X8
    /\ call.block_index = 4
    /\ result.kind = "Err"

\* C7: a block returned by get_block(8, b) is row-major: its element at
\* flat position 8*r + c is the raster sample at offset start + r*width + c,
\* start being the offset the block starts at; each of the 64 positions is
\* written exactly once; on an 8x8 raster block 0 is the raster itself.
C7_BlockIsRowMajor ==
    (call.op = "get_block" /\ call.block_size = BLOCK_SIZE_8X8
       /\ result.kind = "Ok") =>
        LET start == translate_index(img, BLOCK_SIZE_8X8, call.block_index).value
        IN  /\ Len(result.block) = 64
            /\ \A r \in 0 .. 7, c \in 0 .. 7 :
                  result.block[8 * r + c + 1] = img.image_u8[start + r * img.width + c + 1]
            /\ Len(result.writes) = 64
            /\ Range(result.writes) = 0 .. 63
            /\ (img.width = 8 /\ img.height = 8) => result.block = img.image_u8

\* Block 1 of a 16x16 raster was returned.
C7_Witness ==
    /\ img.width = 16 /\ img.height = 16
    /\ call.op = "get_block" /\ call.block_size = BLOCK_SIZE_8X8
    /\ call.block_index = 1
    /\ result.kind = "Ok"
    /\ result.block[9] = img.image_u8[25]


----------------------------------------------------------------------------
(* Claims about the pipeline, checked under SpecDct.                       *)

\* C5: when dct(img) succeeds its output holds exactly num_blocks(8) blocks
\* of 64 elements, and the block at output position i is the quantized
\* transform of the block get_block(8, i) extracts; while the loop runs the
\* output holds the blocks of the indices below block_index, in that order.
C5_OutputInBlockIndexOrder ==
    /\ dct_pc = "loop" => Len(ret) = block_index
    /\ dct_pc = "ok" =>
         /\ Len(ret) = num_blocks(img, BLOCK_SIZE_8X8)
         /\ \A i \in 1 .. Len(ret) :
              /\ Len(ret[i]) = 64
              /\ ret[i] = quantize_block(
                            dct_block(build, BLOCK_SIZE_8X8, BLOCK_SIZE_8X8,
                              get_block(img, BLOCK_SIZE_8X8, i - 1).block).dct)

\* dct succeeded on a raster of several blocks whose first two quantized
\* blocks differ.
C5_Witness ==
    /\ dct_pc = "ok"
    /\ Len(ret) >= 2
    /\ ret[1] # ret[2]

\* C6: the quantized value at flat index i is floor(c / QUANTIZATION_TABLE[i])
\* for the coefficient c, positive, zero or negative: it is the integer q with
\* q * d <= c < (q + 1) * d.  160, 11, -5 at positions 0, 1, 2 give 10, 1, -1
\* and -1 at position 0 gives -1.
C6_QuantizationFloors ==
    /\ (dct_pc \in {"loop", "ok"} /\ ret # <<>>) =>
         \A idx \in 0 .. 63 :
            LET q == ret[Len(ret)][idx + 1]
                c == dct_out.dct[idx + 1]
                d == 256 * QUANTIZATION_TABLE[idx + 1]
            IN  q * d <= c /\ c < (q + 1) * d
    /\ ret # <<>> =>
         /\ quantize(0, 160 * 256) = 10
         /\ quantize(1, 11 * 256) = 1
         /\ quantize(2, (-5) * 256) = -1
         /\ quantize(0, (-1) * 256) = -1

\* A block was pushed with a negative coefficient that its divisor does not
\* divide, quantized below zero, and with a positive and a zero one.
C6_Witness ==
    /\ dct_pc \in {"loop", "ok"} /\ ret # <<>>
    /\ \E idx \in 1 .. 64 :
         /\ dct_out.dct[idx] < 0
         /\ dct_out.dct[idx] % (256 * QUANTIZATION_TABLE[idx]) # 0
         /\ dct_out.dct[idx] > -256 * QUANTIZATION_TABLE[idx]
         /\ ret[Len(ret)][idx] = -1
    /\ \E idx \in 1 .. 64 : dct_out.dct[idx] > 0 /\ ret[Len(ret)][idx] > 0
    /\ \E idx \in 1 .. 64 : dct_out.dct[idx] = 0 /\ ret[Len(ret)][idx] = 0

\* C8: on a raster whose width or height is not a multiple of 8 dct fails
\* with InvalidBlockSize before any block is extracted or transformed: it
\* produces no coefficient block and does not succeed.
C8_InvalidBlockSizeDetectedFirst ==
    (img.width % BLOCK_SIZE_8X8 # 0 \/ img.height % BLOCK_SIZE_8X8 # 0) =>
        /\ ret = <<>>
        /\ result.kind # "Ok"
        /\ dct_pc \in {"start", "loop", "err"}

----------------------------------------------------------------------------
(* Claim about the engine, checked under SpecEngine.                       *)

\* C9: the engine invoked with a block size other than 8 returns an error
\* value: get_block with block_size # 8 and dct_block with width # 8 or
\* height # 8 yield an error, not a panic and not a computed result.
C9_UnsupportedBlockSizeIsError ==
    /\ (call.op = "get_block" /\ call.block_size # BLOCK_SIZE_8X8) =>
          result.kind = "Err"
    /\ (call.op = "dct_block"
          /\ (call.width # BLOCK_SIZE_8X8 \/ call.height # BLOCK_SIZE_8X8)) =>
          dct_out.kind = "Err"

----------------------------------------------------------------------------
(* Claim about the command surface, checked under SpecMain.                *)

\* C10: compress, once the pixel grid is loaded, invokes the pipeline on it;
\* when loading fails it reports the error and attempts no transform;
\* decompress never produces transform output.
C10_CompressInvokesPipeline ==
    main_pc = "done" =>
        /\ (cmd.name = "compress" /\ parse(file).kind = "Ok") =>
              (dct_pc # "idle" /\ img = parse(file).img)
        /\ (cmd.name = "compress" /\ parse(file).kind = "Err") =>
              (exit = "Err" /\ dct_pc = "idle" /\ coeffs.kind = "None")
        /\ cmd.name = "decompress" => coeffs.kind = "None"

====
